---- MODULE Spec2Model ----
(***************************************************************************)
(* Model of certgen.py: the interactive driver main() and the helpers it   *)
(* calls.  Text (typed lines, names, paths, file lines) is a sequence of   *)
(* pieces; a piece is one character of typed input or one literal of an    *)
(* f-string.  The file system is the set of paths that exist.  The         *)
(* external tool is opaque: an invocation either writes its -out file or   *)
(* does not, and its exit status is never read.                            *)
(*                                                                         *)
(* Typed domains range over the characters of (wildcard) host names and    *)
(* blanks; a path separator is never typed, so a path is decided by its    *)
(* text.                                                                   *)
(***************************************************************************)
EXTENDS Naturals, Sequences, FiniteSets

VARIABLES pc, openssl_on_path, fs, fs0, cnf_text, response, domain,
          alt_names, alt_names_list, dir_domain, domain_dir, config_file,
          exception, trace

vars == <<pc, openssl_on_path, fs, fs0, cnf_text, response, domain,
          alt_names, alt_names_list, dir_domain, domain_dir, config_file,
          exception, trace>>

(* ---------------------------- bounds ----------------------------------- *)
MaxDomainLen == 4
MaxAltLen == 2
MaxResponseLen == 2
MaxLongAltLen == 4

DomainChars == {"*", ".", "a", " "}
AltChars == {"a", ",", " "}
ResponseChars == {"y", "Y", "n", " "}
LongAltChars == {"a", "b", ",", " "}

Strings(chars, n) == UNION {[1..k -> chars] : k \in 0..n}

DomainInputs == Strings(DomainChars, MaxDomainLen)
AltInputs == Strings(AltChars, MaxAltLen)
ResponseInputs == Strings(ResponseChars, MaxResponseLen)
LongAltInputs == Strings(LongAltChars, MaxLongAltLen)

(* ------------------------ str methods ---------------------------------- *)
Whitespace == {" "}

RECURSIVE lstrip(_)
lstrip(s) == IF s # <<>> /\ Head(s) \in Whitespace THEN lstrip(Tail(s)) ELSE s

RECURSIVE rstrip(_)
rstrip(s) ==
  IF s # <<>> /\ s[Len(s)] \in Whitespace
  THEN rstrip(SubSeq(s, 1, Len(s) - 1))
  ELSE s

strip(s) == rstrip(lstrip(s))

LowerChar(c) == IF c = "Y" THEN "y" ELSE IF c = "N" THEN "n" ELSE c

lower(s) == [i \in 1..Len(s) |-> LowerChar(s[i])]

\* str.replace(old, new) for a non-empty old: one pass from the left over
\* non-overlapping occurrences.
RECURSIVE replace(_, _, _)
replace(s, old, new) ==
  IF Len(s) < Len(old) THEN s
  ELSE IF SubSeq(s, 1, Len(old)) = old
       THEN new \o replace(SubSeq(s, Len(old) + 1, Len(s)), old, new)
       ELSE <<Head(s)>> \o replace(Tail(s), old, new)

\* str.split(sep) for a one-character sep.
RECURSIVE split(_, _)
split(s, sep) ==
  IF \A i \in 1..Len(s) : s[i] # sep
  THEN <<s>>
  ELSE LET i == CHOOSE k \in 1..Len(s) :
                  s[k] = sep /\ \A j \in 1..(k - 1) : s[j] # sep
       IN <<SubSeq(s, 1, i - 1)>> \o split(SubSeq(s, i + 1, Len(s)), sep)

\* str(i) of a natural number.
Digit(d) == <<"0", "1", "2", "3", "4", "5", "6", "7", "8", "9">>[d + 1]

RECURSIVE str(_)
str(n) == IF n < 10 THEN <<Digit(n)>> ELSE str(n \div 10) \o <<Digit(n % 10)>>

(* ----------------------------- paths ----------------------------------- *)
Cwd == <<".">>
DomainsDir == <<"domains">>
RootKey == <<"LocalRootCA.key">>
RootCrt == <<"LocalRootCA.crt">>
RootPem == <<"LocalRootCA.pem">>
RootSrl == <<"LocalRootCA.srl">>
RootCAFiles == {RootKey, RootCrt, RootPem}

DomainDir(d) == <<"domains/">> \o d
ConfigFile(d) == <<"domains/">> \o d \o <<"/openssl.cnf">>
KeyFile(d) == <<"domains/">> \o d \o <<"/">> \o d \o <<".key">>
CsrFile(d) == <<"domains/">> \o d \o <<"/">> \o d \o <<".csr">>
CrtFile(d) == <<"domains/">> \o d \o <<"/">> \o d \o <<".crt">>

\* os.path.exists: "domains/" and "domains/." name the directory domains,
\* "domains/.." names the working directory.
PathExists(f, p) ==
  IF p \in {DomainDir(<<>>), DomainDir(<<".">>)} THEN DomainsDir \in f
  ELSE IF p = DomainDir(<<".", ".">>) THEN DomainsDir \in f /\ Cwd \in f
  ELSE p \in f

(* ------------------------- helpers of main ----------------------------- *)
\* variants of the presence test that look at fewer files
RootCAPresentKeyOnly(f) == PathExists(f, RootKey)

RootCAPresentAny(f) ==
  PathExists(f, RootKey) \/ PathExists(f, RootCrt) \/ PathExists(f, RootPem)

RootCAPresent(f) ==
  PathExists(f, RootKey) /\ PathExists(f, RootCrt) /\ PathExists(f, RootPem)

ReadResponse(raw) == lower(strip(raw))

AcceptsCreation(r) == r = <<"y">>

\* variant: the typed domain taken as it is
ReadDomainUnstripped(raw) == raw

ReadDomain(raw) == strip(raw)

ReadAltNames(raw) == strip(raw)

RECURSIVE StrippedNonEmpty(_)
StrippedNonEmpty(names) ==
  IF names = <<>> THEN <<>>
  ELSE IF strip(Head(names)) # <<>>
       THEN <<strip(Head(names))>> \o StrippedNonEmpty(Tail(names))
       ELSE StrippedNonEmpty(Tail(names))

ParseAltNames(s) == StrippedNonEmpty(split(s, ","))

Contains(list, x) == \E i \in 1..Len(list) : list[i] = x

\* variant: the domain inserted without the membership test
WithMainDomainAlways(d, list) == <<d>> \o list

WithMainDomain(d, list) == IF ~Contains(list, d) THEN <<d>> \o list ELSE list

\* variant: str.lstrip('*.'), which drops leading characters from a set
RECURSIVE MainDirDomainLstrip(_)
MainDirDomainLstrip(d) ==
  IF d # <<>> /\ Head(d) \in {"*", "."} THEN MainDirDomainLstrip(Tail(d)) ELSE d

MainDirDomain(d) == replace(d, <<"*", ".">>, <<>>)

\* variant: the directory named after the domain as typed
ConfigDirDomainUnstripped(d) == d

ConfigDirDomain(d) == replace(d, <<"*", ".">>, <<>>)

(* --------------------- create_openssl_config --------------------------- *)
ConfigHeader(d) ==
  << <<>>,
     <<"[ req ]">>,
     <<"default_bits       = 2048">>,
     <<"distinguished_name = req_distinguished_name">>,
     <<"req_extensions     = req_ext">>,
     <<"x509_extensions    = v3_req">>,
     <<"prompt             = no">>,
     <<>>,
     <<"[ req_distinguished_name ]">>,
     <<"C  = US">>,
     <<"ST = State">>,
     <<"L  = City">>,
     <<"O  = Organization">>,
     <<"OU = Organizational Unit">>,
     <<"CN = ">> \o d,
     <<>>,
     <<"[ req_ext ]">>,
     <<"subjectAltName = @alt_names">>,
     <<>>,
     <<"[ v3_req ]">>,
     <<"subjectAltName = @alt_names">>,
     <<>>,
     <<"[ alt_names ]">> >>

EnumerateStart == 1

DnsLine(i, alt_name) == <<"DNS.">> \o str(i) \o <<" = ">> \o alt_name

\* the for loop over enumerate(alt_names, start=...): one write per element
RECURSIVE DnsLinesFrom(_, _)
DnsLinesFrom(i, names) ==
  IF names = <<>> THEN <<>>
  ELSE <<DnsLine(i, Head(names))>> \o DnsLinesFrom(i + 1, Tail(names))

\* variant: enumerate without start=1
ConfigTextFromZero(d, names) == ConfigHeader(d) \o DnsLinesFrom(0, names)

ConfigText(d, names) == ConfigHeader(d) \o DnsLinesFrom(EnumerateStart, names)

(* --------------------------- create_root_ca ---------------------------- *)
create_root_ca_params == {}

call_keywords == {"prefixName"}

ArgumentsBind(keywords, params) == keywords \subseteq params

\* the three tool invocations; each writes its -out file or fails, and a
\* later one can only succeed on the file the earlier one left.
create_root_ca(f) ==
  LET afterKey == {f, f \cup {RootKey}}
      afterCrt(g) == IF RootKey \in g THEN {g, g \cup {RootCrt}} ELSE {g}
      afterPem(g) == IF RootCrt \in g THEN {g, g \cup {RootPem}} ELSE {g}
  IN UNION {UNION {afterPem(h) : h \in afterCrt(g)} : g \in afterKey}

RootCAEvents ==
  << [op |-> "run_genrsa", arg |-> RootKey],
     [op |-> "run_req_x509", arg |-> RootCrt],
     [op |-> "run_x509", arg |-> RootPem] >>

(* ------------------------------ state ---------------------------------- *)
Event(o, a) == [op |-> o, arg |-> a]

Log(o, a) == Append(trace, Event(o, a))

\* what an earlier run for the domain "a" may have left behind
PriorDomain == <<"a">>

PriorTrees ==
  { {},
    {DomainsDir, DomainDir(PriorDomain), ConfigFile(PriorDomain),
     KeyFile(PriorDomain), CsrFile(PriorDomain), CrtFile(PriorDomain)} }

InitialFileSystems ==
  {{Cwd} \cup ca \cup tree : ca \in SUBSET RootCAFiles, tree \in PriorTrees}

Locals0 ==
  /\ response = <<>>
  /\ domain = <<>>
  /\ alt_names = <<>>
  /\ alt_names_list = <<>>
  /\ dir_domain = <<>>
  /\ domain_dir = <<>>
  /\ config_file = <<>>
  /\ cnf_text = <<>>
  /\ exception = "none"

Init ==
  /\ pc = "check_openssl"
  /\ openssl_on_path \in BOOLEAN
  /\ fs \in InitialFileSystems
  /\ fs0 = fs
  /\ Locals0
  /\ trace = <<>>

(* ----------------------------- main ------------------------------------ *)
\* variant: the typed domain handed to the three issuance helpers
IssuanceDomainUnstripped(dom, dirdom) == dom

\* the name main hands to create_key, create_csr and sign_certificate
IssuanceDomain(dom, dirdom) == dirdom

\* variant: the run stops at the first tool invocation that fails
StepAfterFailFast(step, ok) ==
  IF ~ok THEN "returned"
  ELSE CASE step = "gen_config" -> "create_key"
         [] step = "create_key" -> "create_csr"
         [] step = "create_csr" -> "sign_certificate"
         [] step = "sign_certificate" -> "report"
         [] step = "report" -> "returned"

\* the statement of main that follows a step; the outcome of the step's tool
\* invocation is not consulted
StepAfter(step, ok) ==
  CASE step = "gen_config" -> "create_key"
    [] step = "create_key" -> "create_csr"
    [] step = "create_csr" -> "sign_certificate"
    [] step = "sign_certificate" -> "report"
    [] step = "report" -> "returned"

CheckOpenssl ==
  /\ pc = "check_openssl"
  /\ pc' = IF openssl_on_path THEN "check_root_ca" ELSE "returned"
  /\ UNCHANGED <<openssl_on_path, fs, fs0, cnf_text, response, domain,
                 alt_names, alt_names_list, dir_domain, domain_dir,
                 config_file, exception, trace>>

CheckRootCA ==
  /\ pc = "check_root_ca"
  /\ pc' = IF RootCAPresent(fs) THEN "domain_prompt" ELSE "root_ca_prompt"
  /\ UNCHANGED <<openssl_on_path, fs, fs0, cnf_text, response, domain,
                 alt_names, alt_names_list, dir_domain, domain_dir,
                 config_file, exception, trace>>

RootCAPrompt ==
  /\ pc = "root_ca_prompt"
  /\ \E raw \in ResponseInputs :
       /\ response' = ReadResponse(raw)
       /\ IF AcceptsCreation(response')
          THEN IF ArgumentsBind(call_keywords, create_root_ca_params)
               THEN /\ fs' \in create_root_ca(fs)
                    /\ trace' = Log("input_response", raw) \o RootCAEvents
                    /\ pc' = "domain_prompt"
                    /\ UNCHANGED exception
               ELSE /\ exception' = "TypeError"
                    /\ trace' = Log("input_response", raw)
                    /\ pc' = "raised"
                    /\ UNCHANGED fs
          ELSE /\ trace' = Log("input_response", raw)
               /\ pc' = "returned"
               /\ UNCHANGED <<fs, exception>>
  /\ UNCHANGED <<openssl_on_path, fs0, cnf_text, domain, alt_names,
                 alt_names_list, dir_domain, domain_dir, config_file>>

DomainPrompt ==
  /\ pc = "domain_prompt"
  /\ \E raw \in DomainInputs :
       /\ domain' = ReadDomain(raw)
       /\ trace' = Log("input_domain", raw)
       /\ pc' = IF domain' = <<>> THEN "returned" ELSE "alt_prompt"
  /\ UNCHANGED <<openssl_on_path, fs, fs0, cnf_text, response, alt_names,
                 alt_names_list, dir_domain, domain_dir, config_file,
                 exception>>

AltPromptFrom(inputs) ==
  /\ pc = "alt_prompt"
  /\ \E raw \in inputs :
       /\ alt_names' = ReadAltNames(raw)
       /\ alt_names_list' = WithMainDomain(domain, ParseAltNames(alt_names'))
       /\ trace' = Log("input_alt", raw)
  /\ pc' = "ensure_directories"
  /\ UNCHANGED <<openssl_on_path, fs, fs0, cnf_text, response, domain,
                 dir_domain, domain_dir, config_file, exception>>

AltPrompt == AltPromptFrom(AltInputs)

EnsureDirectories ==
  /\ pc = "ensure_directories"
  /\ LET d == MainDirDomain(domain)
         dir == DomainDir(d)
         mk1 == ~PathExists(fs, DomainsDir)
         fs1 == IF mk1 THEN fs \cup {DomainsDir} ELSE fs
         mk2 == ~PathExists(fs1, dir)
         fs2 == IF mk2 THEN fs1 \cup {dir} ELSE fs1
     IN /\ dir_domain' = d
        /\ domain_dir' = dir
        /\ fs' = fs2
        /\ trace' = trace
                    \o <<Event("exists", DomainsDir)>>
                    \o (IF mk1 THEN <<Event("makedirs", DomainsDir)>> ELSE <<>>)
                    \o <<Event("exists", dir)>>
                    \o (IF mk2 THEN <<Event("makedirs", dir)>> ELSE <<>>)
  /\ pc' = "gen_config"
  /\ UNCHANGED <<openssl_on_path, fs0, cnf_text, response, domain, alt_names,
                 alt_names_list, config_file, exception>>

GenerateConfig ==
  /\ pc = "gen_config"
  /\ LET file == ConfigFile(ConfigDirDomain(domain))
     IN /\ config_file' = file
        /\ cnf_text' = ConfigText(domain, alt_names_list)
        /\ fs' = fs \cup {file}
        /\ trace' = Log("open_w", file)
  /\ pc' = StepAfter("gen_config", TRUE)
  /\ UNCHANGED <<openssl_on_path, fs0, response, domain, alt_names,
                 alt_names_list, dir_domain, domain_dir, exception>>

CreateKey ==
  /\ pc = "create_key"
  /\ \E ok \in BOOLEAN :
       /\ fs' = IF ok THEN fs \cup {KeyFile(IssuanceDomain(domain, dir_domain))} ELSE fs
       /\ pc' = StepAfter("create_key", ok)
  /\ trace' = Log("run_genrsa", KeyFile(IssuanceDomain(domain, dir_domain)))
  /\ UNCHANGED <<openssl_on_path, fs0, cnf_text, response, domain, alt_names,
                 alt_names_list, dir_domain, domain_dir, config_file,
                 exception>>

CreateCsr ==
  /\ pc = "create_csr"
  /\ \E ok \in BOOLEAN :
       /\ ok => KeyFile(IssuanceDomain(domain, dir_domain)) \in fs /\ config_file \in fs
       /\ fs' = IF ok THEN fs \cup {CsrFile(IssuanceDomain(domain, dir_domain))} ELSE fs
       /\ pc' = StepAfter("create_csr", ok)
  /\ trace' = Log("run_req", CsrFile(IssuanceDomain(domain, dir_domain)))
  /\ UNCHANGED <<openssl_on_path, fs0, cnf_text, response, domain, alt_names,
                 alt_names_list, dir_domain, domain_dir, config_file,
                 exception>>

SignCertificate ==
  /\ pc = "sign_certificate"
  /\ \E ok \in BOOLEAN :
       /\ ok => /\ CsrFile(IssuanceDomain(domain, dir_domain)) \in fs
                /\ config_file \in fs
                /\ RootCrt \in fs
                /\ RootKey \in fs
       /\ fs' = IF ok THEN fs \cup {CrtFile(IssuanceDomain(domain, dir_domain)), RootSrl} ELSE fs
       /\ pc' = StepAfter("sign_certificate", ok)
  /\ trace' = Log("run_x509", CrtFile(IssuanceDomain(domain, dir_domain)))
  /\ UNCHANGED <<openssl_on_path, fs0, cnf_text, response, domain, alt_names,
                 alt_names_list, dir_domain, domain_dir, config_file,
                 exception>>

ReportCompletion ==
  /\ pc = "report"
  /\ trace' = Log("print_complete", <<>>)
  /\ pc' = StepAfter("report", TRUE)
  /\ UNCHANGED <<openssl_on_path, fs, fs0, cnf_text, response, domain,
                 alt_names, alt_names_list, dir_domain, domain_dir,
                 config_file, exception>>

Next ==
  \/ CheckOpenssl
  \/ CheckRootCA
  \/ RootCAPrompt
  \/ DomainPrompt
  \/ AltPrompt
  \/ EnsureDirectories
  \/ GenerateConfig
  \/ CreateKey
  \/ CreateCsr
  \/ SignCertificate
  \/ ReportCompletion

Spec == Init /\ [][Next]_vars

(* ------------- the alternate-name path on longer inputs ---------------- *)
AltSpecDomains == {<<"a">>, <<"b">>, <<"*", ".", "a">>}

InitAlt ==
  /\ pc = "alt_prompt"
  /\ openssl_on_path = TRUE
  /\ fs \in {f \in InitialFileSystems : RootCAFiles \subseteq f}
  /\ fs0 = fs
  /\ domain \in AltSpecDomains
  /\ trace = <<Event("input_domain", domain)>>
  /\ response = <<>>
  /\ alt_names = <<>>
  /\ alt_names_list = <<>>
  /\ dir_domain = <<>>
  /\ domain_dir = <<>>
  /\ config_file = <<>>
  /\ cnf_text = <<>>
  /\ exception = "none"

AltPromptLong == AltPromptFrom(LongAltInputs)

NextAlt ==
  \/ AltPromptLong
  \/ EnsureDirectories
  \/ GenerateConfig

SpecAlt == InitAlt /\ [][NextAlt]_vars

(* ======================= properties of the runs ======================== *)
InputOps == {"input_response", "input_domain", "input_alt"}
WriteOps == {"makedirs", "open_w", "run_genrsa", "run_req", "run_x509",
             "run_req_x509"}

UnderDomains(p) == p # <<>> /\ p[1] \in {"domains", "domains/"}

Happened(o) == \E i \in 1..Len(trace) : trace[i].op = o

DomainWriteAt(i) == trace[i].op \in WriteOps /\ UnderDomains(trace[i].arg)

DomainTree(f) == {p \in f : UnderDomains(p)}

RootCAMissingAtStart == ~(RootCAFiles \subseteq fs0)

Answered(i) == trace[i].op = "input_response"

AnsweredYes ==
  \E i \in 1..Len(trace) : Answered(i) /\ lower(strip(trace[i].arg)) = <<"y">>

AnsweredOther ==
  \E i \in 1..Len(trace) : Answered(i) /\ lower(strip(trace[i].arg)) # <<"y">>

AllBlank(s) == \A i \in 1..Len(s) : s[i] = " "

HasMarker(s) == \E i \in 1..(Len(s) - 1) : s[i] = "*" /\ s[i + 1] = "."

StartsWithMarker(s) == Len(s) >= 2 /\ s[1] = "*" /\ s[2] = "."

Rest(s) == SubSeq(s, 3, Len(s))

DirectoriesEnsured ==
  pc \in {"gen_config", "create_key", "create_csr", "sign_certificate",
          "report"}
  \/ (pc = "returned" /\ Happened("print_complete"))

ConfigWritten == Happened("open_w")

\* C1: when a root CA file is missing at the start, the creation prompt is
\* answered before the domain prompt is reached and before anything under
\* domains/ is created; an answer other than y (trimmed, lower-cased) ends the
\* run at once with the domains/ tree as it was.
C1_RootCAOfferedBeforeDomains ==
  RootCAMissingAtStart =>
    /\ pc \in {"domain_prompt", "alt_prompt"} \/ DirectoriesEnsured
         => Happened("input_response")
    /\ \A i \in 1..Len(trace) :
         (trace[i].op = "input_domain" \/ DomainWriteAt(i))
           => \E j \in 1..(i - 1) : Answered(j)
    /\ AnsweredOther =>
         /\ pc = "returned"
         /\ ~Happened("input_domain")
         /\ \A i \in 1..Len(trace) : trace[i].op \notin WriteOps
         /\ DomainTree(fs) = DomainTree(fs0)

C1_DeclinedRun ==
  /\ RootCAMissingAtStart
  /\ pc = "returned"
  /\ trace = <<Event("input_response", <<"n">>)>>
  /\ DomainTree(fs) = {}

\* C2: when a root CA file is missing and the answer is y, the three root CA
\* commands are run and the domain prompt is reached.
C2_AcceptedCreatesRootCA ==
  (RootCAMissingAtStart /\ AnsweredYes) =>
    /\ pc # "raised"
    /\ exception = "none"
    /\ \A k \in 1..Len(RootCAEvents) :
         \E i \in 1..Len(trace) : trace[i] = RootCAEvents[k]
    /\ pc = "domain_prompt" \/ Happened("input_domain")

\* C3 as stated: for a domain *.<rest> the directory is domains/<rest> and
\* the config path domains/<rest>/openssl.cnf, whatever <rest> contains.
C3_OnlyLeadingMarkerStripped ==
  (ConfigWritten /\ StartsWithMarker(domain)) =>
    /\ domain_dir = <<"domains/">> \o Rest(domain)
    /\ config_file = <<"domains/">> \o Rest(domain) \o <<"/openssl.cnf">>

\* C3 amended: for a domain *.<rest> the directory is domains/<rest> and the
\* config path domains/<rest>/openssl.cnf exactly when <rest> holds no further
\* "*." ; a "*." inside <rest> is removed as well, so the name gets shorter.
C3_MarkersStripped ==
  (ConfigWritten /\ StartsWithMarker(domain)) =>
    IF HasMarker(Rest(domain))
    THEN /\ Len(dir_domain) < Len(Rest(domain))
         /\ domain_dir # <<"domains/">> \o Rest(domain)
         /\ config_file # <<"domains/">> \o Rest(domain) \o <<"/openssl.cnf">>
    ELSE /\ domain_dir = <<"domains/">> \o Rest(domain)
         /\ config_file = <<"domains/">> \o Rest(domain) \o <<"/openssl.cnf">>
         /\ PathExists(fs, domain_dir)

C3_WildcardRun ==
  /\ pc = "returned"
  /\ domain = <<"*", ".", "a">>
  /\ domain_dir = <<"domains/", "a">>
  /\ config_file = <<"domains/", "a", "/openssl.cnf">>
  /\ config_file \in fs

\* C4: for a non-empty domain without a wildcard marker the directory made by
\* main and used for the config is domains/<domain>, the name unchanged.
C4_PlainDomainDirectory ==
  (DirectoriesEnsured /\ ~HasMarker(domain)) =>
    /\ domain # <<>>
    /\ domain_dir = <<"domains/">> \o domain
    /\ PathExists(fs, <<"domains/">> \o domain)
    /\ ConfigWritten =>
         /\ config_file = <<"domains/">> \o domain \o <<"/openssl.cnf">>
         /\ config_file \in fs

C4_PlainRun ==
  /\ pc = "returned"
  /\ domain = <<".", "a", ".", "a">>
  /\ domain_dir = <<"domains/", ".", "a", ".", "a">>
  /\ config_file \in fs
  /\ Happened("makedirs")

\* the lines of the written file after the [ alt_names ] line
AltSection(text) ==
  LET k == CHOOSE i \in 1..Len(text) : text[i] = <<"[ alt_names ]">>
  IN SubSeq(text, k + 1, Len(text))

DigitValue(c) == CHOOSE v \in 0..9 : <<"0", "1", "2", "3", "4", "5", "6", "7", "8", "9">>[v + 1] = c

RECURSIVE DecimalValue(_)
DecimalValue(ds) ==
  IF Len(ds) = 1 THEN DigitValue(ds[1])
  ELSE 10 * DecimalValue(SubSeq(ds, 1, Len(ds) - 1)) + DigitValue(ds[Len(ds)])

IsDnsLine(line, i, name) ==
  /\ Len(line) >= 3
  /\ line[1] = "DNS."
  /\ \E k \in 3..Len(line) :
       /\ line[k] = " = "
       /\ \A j \in 2..(k - 1) : line[j] \in {"0", "1", "2", "3", "4", "5", "6", "7", "8", "9"}
       /\ DecimalValue(SubSeq(line, 2, k - 1)) = i
       /\ SubSeq(line, k + 1, Len(line)) = name

\* C5: the [ alt_names ] section of the written config holds one line per
\* element of the list handed over, the i-th being DNS.<i> = <i-th name>,
\* counted from 1, in list order, duplicates kept.
C5_DnsLinesFollowList ==
  ConfigWritten =>
    /\ \E i \in 1..Len(cnf_text) : cnf_text[i] = <<"[ alt_names ]">>
    /\ Len(AltSection(cnf_text)) = Len(alt_names_list)
    /\ \A i \in 1..Len(alt_names_list) :
         IsDnsLine(AltSection(cnf_text)[i], i, alt_names_list[i])

C5_ThreeLinesWithDuplicate ==
  /\ ConfigWritten
  /\ Len(alt_names_list) = 3
  /\ alt_names_list[2] = alt_names_list[3]
  /\ Len(AltSection(cnf_text)) = 3

\* the user's list: the typed line split at commas, each name trimmed, empty
\* names dropped
UserList == ParseAltNames(alt_names)

Position(list, x) == CHOOSE i \in 1..Len(list) : list[i] = x

\* C6: the list handed to config generation is the user's list with the domain
\* put in front when the domain is not in the user's list, and the user's list
\* itself, nothing moved or doubled, when it is.
C6_MainDomainPrepended ==
  Happened("input_alt") =>
    IF \E i \in 1..Len(UserList) : UserList[i] = domain
    THEN alt_names_list = UserList
    ELSE /\ Len(alt_names_list) = Len(UserList) + 1
         /\ alt_names_list[1] = domain
         /\ \A i \in 1..Len(UserList) : alt_names_list[i + 1] = UserList[i]

C6_DomainKeptInPlace ==
  /\ ConfigWritten
  /\ Len(alt_names_list) = 2
  /\ alt_names_list[1] # domain
  /\ alt_names_list[2] = domain
  /\ trace[2].arg # alt_names

\* C7: without the tool on the search path main returns before any prompt and
\* any write; with an empty or blank main domain it returns before the
\* alternate-name prompt and before anything under domains/ is created.  Both
\* runs end by returning.
C7_EarlyAborts ==
  /\ (~openssl_on_path /\ pc # "check_openssl") =>
       /\ pc = "returned"
       /\ exception = "none"
       /\ trace = <<>>
       /\ fs = fs0
  /\ (\E i \in 1..Len(trace) :
        trace[i].op = "input_domain" /\ AllBlank(trace[i].arg)) =>
       /\ pc = "returned"
       /\ exception = "none"
       /\ ~Happened("input_alt")
       /\ \A i \in 1..Len(trace) : trace[i].op \notin WriteOps
       /\ DomainTree(fs) = DomainTree(fs0)

C7_BlankDomainRun ==
  /\ pc = "returned"
  /\ trace = <<Event("input_domain", <<" ", " ">>)>>
  /\ DomainsDir \notin fs

\* the calls made after the domain was read, directory creations left out
RECURSIVE OpsOf(_)
OpsOf(t) ==
  IF t = <<>> THEN <<>>
  ELSE IF Head(t).op = "makedirs" THEN OpsOf(Tail(t))
       ELSE <<Head(t).op>> \o OpsOf(Tail(t))

StepOrder ==
  <<"input_alt", "exists", "exists", "open_w", "run_genrsa", "run_req",
    "run_x509", "print_complete">>

DomainReadAt(i) == trace[i].op = "input_domain" /\ ~AllBlank(trace[i].arg)

PromptIssued == pc = "root_ca_prompt" \/ Happened("input_response")

====
